---- MODULE Spec2Model ----
(***************************************************************************)
(* Model of mysql_mcp_server/server_new.py: the process-wide               *)
(* CONNECTION_STATE record and the handlers that read and write it         *)
(* (main, call_tool, list_resources, read_resource).                       *)
(*                                                                         *)
(* Conventions.                                                            *)
(*  - A Python optional is None (the empty tuple) or Some(x) = <<x>>.       *)
(*  - Text that the code inspects character by character (port numbers,    *)
(*    queries, table names, URIs) is a tuple of one-character strings.     *)
(*    Text the code only copies (host, user, driver messages) is a string. *)
(*  - A reply text is the tuple of the fragments an f-string or a join     *)
(*    concatenates, in order.                                              *)
(*  - The driver (mysql.connector) is external: each database call takes   *)
(*    one of the outcomes in DbOutcomes, chosen nondeterministically.      *)
(***************************************************************************)
EXTENDS Integers, Sequences, FiniteSets, TLC

None == <<>>
Some(x) == <<x>>
IsNone(o) == Len(o) = 0
Val(o) == o[1]

(* ---------------------------------------------------------------------- *)
(* int() and str() on the decimal texts the code converts                  *)
(* ---------------------------------------------------------------------- *)
Digits == <<"0", "1", "2", "3", "4", "5", "6", "7", "8", "9">>

IsDigit(c) == \E i \in 1..10 : Digits[i] = c

DigitVal(c) == (CHOOSE i \in 1..10 : Digits[i] = c) - 1

IsDecimal(s) == Len(s) > 0 /\ \A i \in 1..Len(s) : IsDigit(s[i])

RECURSIVE DecimalValue(_)
DecimalValue(s) ==
    IF Len(s) = 0 THEN 0
    ELSE 10 * DecimalValue(SubSeq(s, 1, Len(s) - 1)) + DigitVal(s[Len(s)])

(* int(x): x is a JSON integer [t |-> "int"] or a text [t |-> "str"].      *)
int(x) ==
    IF x.t = "int" THEN [raised |-> "", value |-> x.v]
    ELSE IF IsDecimal(x.v) THEN [raised |-> "", value |-> DecimalValue(x.v)]
    ELSE [raised |-> "ValueError"]

RECURSIVE str(_)
str(n) ==
    IF n < 10 THEN <<Digits[n + 1]>>
    ELSE str(n \div 10) \o <<Digits[(n % 10) + 1]>>

StrText(s) == [t |-> "str", v |-> s]
IntVal(n) == [t |-> "int", v |-> n]

(* ---------------------------------------------------------------------- *)
(* get_db_config                                                           *)
(* ---------------------------------------------------------------------- *)
(* os.getenv(name, default) *)
getenv(e, name, default) == IF IsNone(e[name]) THEN default ELSE Val(e[name])

(* Python truthiness of an optional string: None and "" are false. *)
Truthy(o) == ~IsNone(o) /\ Val(o) # ""

get_db_config(e) ==
    LET port == int(StrText(getenv(e, "MYSQL_PORT", <<"3", "3", "0", "6">>)))
        timeout == int(StrText(getenv(e, "MYSQL_CONNECTION_TIMEOUT", <<"5">>)))
    IN  IF port.raised # "" \/ timeout.raised # ""
        THEN [raised |-> "ValueError", text |-> <<"invalid literal for int()">>]
        ELSE IF ~(Truthy(e["MYSQL_USER"]) /\ Truthy(e["MYSQL_PASSWORD"])
                  /\ Truthy(e["MYSQL_DATABASE"]))
        THEN [raised |-> "ValueError",
              text |-> <<"Missing required database configuration">>]
        ELSE [raised |-> "",
              config |-> [host |-> getenv(e, "MYSQL_HOST", "localhost"),
                          port |-> port.value,
                          user |-> Val(e["MYSQL_USER"]),
                          password |-> Val(e["MYSQL_PASSWORD"]),
                          database |-> Val(e["MYSQL_DATABASE"]),
                          charset |-> getenv(e, "MYSQL_CHARSET", "utf8"),
                          connection_timeout |-> timeout.value,
                          get_warnings |-> TRUE]]

(* ---------------------------------------------------------------------- *)
(* Inputs                                                                  *)
(* ---------------------------------------------------------------------- *)
MkEnv(host, port, timeout, charset, user, password, database) ==
    [MYSQL_HOST |-> host, MYSQL_PORT |-> port,
     MYSQL_CONNECTION_TIMEOUT |-> timeout, MYSQL_CHARSET |-> charset,
     MYSQL_USER |-> user, MYSQL_PASSWORD |-> password,
     MYSQL_DATABASE |-> database]

(* host, port, timeout, charset as found in the environment *)
EnvEndpoints ==
    { <<None, None, None, None>>,
      <<Some("db1"), Some(<<"3", "3", "0", "7">>), Some(<<"9">>), Some("utf8mb4")>>,
      <<Some("db1"), Some(<<"x">>), None, None>> }

(* user, password, database as found in the environment *)
EnvCredentials ==
    { <<Some("root"), Some("pw"), Some("shop")>>,
      <<None, Some("pw"), Some("shop")>>,
      <<Some("root"), Some(""), Some("shop")>>,
      <<Some("root"), Some("pw"), None>> }

Environments ==
    { MkEnv(ep[1], ep[2], ep[3], ep[4], cr[1], cr[2], cr[3]) :
        ep \in EnvEndpoints, cr \in EnvCredentials }

(* The arguments mapping of a call: a key is absent (None) or present.     *)
MkArgs(host, port, user, password, database, query) ==
    [host |-> host, port |-> port, user |-> user, password |-> password,
     database |-> database, query |-> query]

NoArgs == MkArgs(None, None, None, None, None, None)

ConnectArguments ==
    { NoArgs,
      MkArgs(Some("db2"), None, None, None, None, None),
      MkArgs(None, Some(IntVal(3308)), None, None, None, None),
      MkArgs(None, Some(StrText(<<"3", "3", "0", "9">>)), None, None, None, None),
      MkArgs(None, Some(StrText(<<"x">>)), None, None, None, None),
      MkArgs(None, None, None, Some("bad"), None, None),
      MkArgs(None, None, Some("bob"), Some("pw2"), Some("crm"), None),
      MkArgs(Some("db2"), Some(IntVal(3308)), Some("bob"), Some("pw2"),
             Some("crm"), None) }

(* What one database call does: connect(config) raises, or it returns and  *)
(* cursor.execute raises, or both return ("ok").  OperationalError is a    *)
(* subclass of Error; "Error" stands for every other subclass.  msg is     *)
(* str(e).  Leaving the with blocks (cursor.close, conn.close) is taken    *)
(* not to raise.                                                           *)
DbOk == [stage |-> "ok", error |-> "", msg |-> ""]

DbFailures ==
    { [stage |-> "open", error |-> "OperationalError",
       msg |-> "2003 (HY000): Can't connect to MySQL server"],
      [stage |-> "open", error |-> "Error",
       msg |-> "1045 (28000): Access denied for user"],
      [stage |-> "execute", error |-> "OperationalError",
       msg |-> "2013 (HY000): Lost connection to MySQL server during query"],
      [stage |-> "execute", error |-> "Error",
       msg |-> "1064 (42000): You have an error in your SQL syntax"] }

DbOutcomes == {DbOk} \cup DbFailures

DriverMessages == { o.msg : o \in DbFailures }

(* ---------------------------------------------------------------------- *)
(* State                                                                   *)
(* ---------------------------------------------------------------------- *)
VARIABLES
    CONNECTION_STATE,  \* the module-level dict
    env,               \* os.environ as the process sees it
    pc,                \* "loaded": module imported; "serving": main() runs app
    op,                \* name of the operation dispatched last
    arguments,         \* its arguments
    result,            \* what it returned or raised
    db,                \* what it did with the driver
    cfg_loads,         \* how many times it called get_db_config
    before,            \* is_connected and last_error when it was dispatched
    tasks,             \* concurrent dispatch: the handler coroutines in flight
    running            \* concurrent dispatch: the task holding the event loop

vars ==
    <<CONNECTION_STATE, env, pc, op, arguments, result, db, cfg_loads, before,
      tasks, running>>

Flags(cs) == [is_connected |-> cs.is_connected, last_error |-> cs.last_error]

NoDb == [opened |-> 0, closed |-> 0, config |-> None, executed |-> <<>>,
         committed |-> FALSE, outcome |-> DbOk]

(* Faulty variant: conn.close() as the last statement of the block instead *)
(* of a with statement, so an error in cursor.execute skips it.            *)
DbCall_LeaksOnError(config, stmt, outcome, commits) ==
    [opened |-> IF outcome.stage = "open" THEN 0 ELSE 1,
     closed |-> IF outcome.stage = "ok" THEN 1 ELSE 0,
     config |-> Some(config),
     executed |-> IF outcome.stage = "open" THEN <<>> ELSE <<stmt>>,
     committed |-> outcome.stage = "ok" /\ commits,
     outcome |-> outcome]

(* with connect(config) as conn: with conn.cursor() as cursor:           *)
(*     cursor.execute(stmt) ...                                            *)
(* The with statement closes the connection on every exit once it is open. *)
DbCall(config, stmt, outcome, commits) ==
    [opened |-> IF outcome.stage = "open" THEN 0 ELSE 1,
     closed |-> IF outcome.stage = "open" THEN 0 ELSE 1,
     config |-> Some(config),
     executed |-> IF outcome.stage = "open" THEN <<>> ELSE <<stmt>>,
     committed |-> outcome.stage = "ok" /\ commits,
     outcome |-> outcome]

TextContent(text) == [kind |-> "text", text |-> text]
Fault(type, text) == [kind |-> "fault", type |-> type, text |-> text]

Init ==
    /\ CONNECTION_STATE = [is_connected |-> FALSE, last_error |-> None,
                           connection_details |-> None]
    /\ env \in Environments
    /\ pc = "loaded"
    /\ op = "none"
    /\ arguments = NoArgs
    /\ result = [kind |-> "none"]
    /\ db = NoDb
    /\ cfg_loads = 0
    /\ before = Flags(CONNECTION_STATE)
    /\ tasks = <<>>
    /\ running = 0

(* Faulty variant: a configuration error at startup ends the process. *)
main_StopsOnBadConfig ==
    /\ pc = "loaded"
    /\ pc' = IF get_db_config(env).raised # "" THEN "stopped" ELSE "serving"
    /\ CONNECTION_STATE' = [CONNECTION_STATE EXCEPT !.is_connected = FALSE,
                                                    !.last_error = None]
    /\ op' = "main"
    /\ arguments' = NoArgs
    /\ result' = [kind |-> "none"]
    /\ db' = NoDb
    /\ cfg_loads' = 1
    /\ before' = Flags(CONNECTION_STATE)
    /\ UNCHANGED <<env, tasks, running>>

(* main(): resets two fields, loads the configuration only to log it       *)
(* (any exception is logged and swallowed), then serves.                   *)
main ==
    /\ pc = "loaded"
    /\ pc' = "serving"
    /\ CONNECTION_STATE' = [CONNECTION_STATE EXCEPT !.is_connected = FALSE,
                                                    !.last_error = None]
    /\ op' = "main"
    /\ arguments' = NoArgs
    /\ result' = [kind |-> "none"]
    /\ db' = NoDb
    /\ cfg_loads' = 1
    /\ before' = Flags(CONNECTION_STATE)
    /\ UNCHANGED <<env, tasks, running>>

(* ---------------------------------------------------------------------- *)
(* call_tool: connect                                                      *)
(* ---------------------------------------------------------------------- *)
(* Faulty variant: the database override is dropped. *)
ApplyOverrides_SkipsDatabase(config, a) ==
    LET c1 == IF IsNone(a.host) THEN config
              ELSE [config EXCEPT !.host = Val(a.host)]
        p  == IF IsNone(a.port) THEN [raised |-> "", value |-> c1.port]
              ELSE int(Val(a.port))
    IN  IF p.raised # "" THEN [raised |-> p.raised]
        ELSE LET c2 == [c1 EXCEPT !.port = p.value]
                 c3 == IF IsNone(a.user) THEN c2
                       ELSE [c2 EXCEPT !.user = Val(a.user)]
                 c4 == IF IsNone(a.password) THEN c3
                       ELSE [c3 EXCEPT !.password = Val(a.password)]
             IN  [raised |-> "", config |-> c4]

(* Lines 207-216: override the base configuration with the arguments.      *)
ApplyOverrides(config, a) ==
    LET c1 == IF IsNone(a.host) THEN config
              ELSE [config EXCEPT !.host = Val(a.host)]
        p  == IF IsNone(a.port) THEN [raised |-> "", value |-> c1.port]
              ELSE int(Val(a.port))
    IN  IF p.raised # "" THEN [raised |-> p.raised]
        ELSE LET c2 == [c1 EXCEPT !.port = p.value]
                 c3 == IF IsNone(a.user) THEN c2
                       ELSE [c2 EXCEPT !.user = Val(a.user)]
                 c4 == IF IsNone(a.password) THEN c3
                       ELSE [c3 EXCEPT !.password = Val(a.password)]
                 c5 == IF IsNone(a.database) THEN c4
                       ELSE [c4 EXCEPT !.database = Val(a.database)]
             IN  [raised |-> "", config |-> c5]

Details(config) ==
    [host |-> config.host, port |-> config.port, user |-> config.user,
     database |-> config.database]

Endpoint(d) ==
    <<d.host, ":">> \o str(d.port)
        \o <<" as ", d.user, " (database: ", d.database, ")">>

(* Faulty variant: line 226 left out, a stale last_error survives. *)
ConnectSucceeded_KeepsLastError(cs, config) ==
    [cs EXCEPT !.is_connected = TRUE,
               !.connection_details = Some(Details(config))]

(* Lines 225-232 *)
ConnectSucceeded(cs, config) ==
    [is_connected |-> TRUE,
     last_error |-> None,
     connection_details |-> Some(Details(config))]

(* Faulty variant: the handler records the error but keeps the flag. *)
ConnectFailed_KeepsConnected(cs, msg) == [cs EXCEPT !.last_error = Some(msg)]

(* Faulty variant: the flag assignment copied from the success path. *)
ConnectFailed_MarksConnected(cs, msg) ==
    [cs EXCEPT !.is_connected = TRUE, !.last_error = Some(msg)]

(* Lines 236-237 and 240-241 *)
ConnectFailed(cs, msg) ==
    [cs EXCEPT !.is_connected = FALSE, !.last_error = Some(msg)]

(* Faulty variant: the overrides are laid over the raw environment values  *)
(* and the required fields are validated afterwards.                       *)
ConnectConfig_OverridesFirst(e, a) ==
    LET port == int(StrText(getenv(e, "MYSQL_PORT", <<"3", "3", "0", "6">>)))
        timeout == int(StrText(getenv(e, "MYSQL_CONNECTION_TIMEOUT", <<"5">>)))
        raw == [host |-> getenv(e, "MYSQL_HOST", "localhost"),
                port |-> IF port.raised = "" THEN port.value ELSE 0,
                user |-> getenv(e, "MYSQL_USER", ""),
                password |-> getenv(e, "MYSQL_PASSWORD", ""),
                database |-> getenv(e, "MYSQL_DATABASE", ""),
                charset |-> getenv(e, "MYSQL_CHARSET", "utf8"),
                connection_timeout |->
                    IF timeout.raised = "" THEN timeout.value ELSE 0,
                get_warnings |-> TRUE]
        over == ApplyOverrides(raw, a)
    IN  IF port.raised # "" \/ timeout.raised # "" \/ over.raised # ""
        THEN [raised |-> "ValueError", text |-> <<"invalid literal for int()">>]
        ELSE IF over.config.user = "" \/ over.config.password = ""
                \/ over.config.database = ""
        THEN [raised |-> "ValueError",
              text |-> <<"Missing required database configuration">>]
        ELSE over

(* Lines 204-216: the environment configuration is loaded (and validated)  *)
(* first, the overrides are applied to it afterwards.  Neither ValueError  *)
(* is caught by the handlers at lines 235-242.                             *)
ConnectConfig(e, a) ==
    LET base == get_db_config(e) IN
    IF base.raised # "" THEN base
    ELSE LET over == ApplyOverrides(base.config, a) IN
         IF over.raised # ""
         THEN [raised |-> over.raised, text |-> <<"invalid literal for int()">>]
         ELSE over

ConnectTool(a, outcome) ==
    LET over == ConnectConfig(env, a) IN
    /\ cfg_loads' = 1
    /\ IF over.raised # ""
       THEN /\ result' = Fault(over.raised, over.text)
            /\ db' = NoDb
            /\ UNCHANGED CONNECTION_STATE
       ELSE /\ db' = DbCall(over.config, <<"SELECT 1">>, outcome, FALSE)
            /\ IF outcome.stage = "ok"
               THEN /\ CONNECTION_STATE' =
                          ConnectSucceeded(CONNECTION_STATE, over.config)
                    /\ result' = TextContent(
                          <<"Successfully connected to MySQL at ">>
                              \o Endpoint(over.config))
               ELSE IF outcome.error = "OperationalError"
               THEN /\ CONNECTION_STATE' =
                          ConnectFailed(CONNECTION_STATE, outcome.msg)
                    /\ result' = TextContent(
                          <<"Failed to connect to MySQL: ", outcome.msg>>)
               ELSE /\ CONNECTION_STATE' =
                          ConnectFailed(CONNECTION_STATE, outcome.msg)
                    /\ result' = TextContent(
                          <<"Database error: ", outcome.msg>>)

(* ---------------------------------------------------------------------- *)
(* call_tool: disconnect                                                   *)
(* ---------------------------------------------------------------------- *)
(* Faulty variant: line 247 left out. *)
Disconnected_KeepsLastError(cs) == [cs EXCEPT !.is_connected = FALSE]

(* Lines 246-247 *)
Disconnected(cs) == [cs EXCEPT !.is_connected = FALSE, !.last_error = None]

DisconnectTool ==
    /\ CONNECTION_STATE' = Disconnected(CONNECTION_STATE)
    /\ result' = TextContent(<<"Disconnected from MySQL.">>)
    /\ db' = NoDb
    /\ cfg_loads' = 0

(* ---------------------------------------------------------------------- *)
(* call_tool: connection_status                                            *)
(* ---------------------------------------------------------------------- *)
(* Lines 252-259.  details['host'] on None raises TypeError.               *)
StatusReply(cs) ==
    IF cs.is_connected
    THEN IF IsNone(cs.connection_details)
         THEN Fault("TypeError", <<"'NoneType' object is not subscriptable">>)
         ELSE TextContent(<<"Connected to MySQL at ">>
                              \o Endpoint(Val(cs.connection_details)))
    ELSE IF Truthy(cs.last_error)
         THEN TextContent(<<"Not connected to MySQL.", " Last error: ",
                            Val(cs.last_error)>>)
         ELSE TextContent(<<"Not connected to MySQL.">>)

(* Faulty variant: reporting the last error also clears it. *)
ConnectionStatusTool_ClearsError ==
    /\ result' = StatusReply(CONNECTION_STATE)
    /\ db' = NoDb
    /\ cfg_loads' = 0
    /\ CONNECTION_STATE' = [CONNECTION_STATE EXCEPT !.last_error = None]

ConnectionStatusTool ==
    /\ result' = StatusReply(CONNECTION_STATE)
    /\ db' = NoDb
    /\ cfg_loads' = 0
    /\ UNCHANGED CONNECTION_STATE

(* ---------------------------------------------------------------------- *)
(* Text helpers: str.strip, str.upper, str.startswith, str.split, join,    *)
(* urllib.parse.quote                                                      *)
(* ---------------------------------------------------------------------- *)
LowerCase == <<"a", "b", "c", "d", "e", "f", "g", "h", "i", "j", "k", "l", "m", "n", "o", "p", "q", "r", "s", "t", "u", "v", "w", "x", "y", "z">>

UpperCase == <<"A", "B", "C", "D", "E", "F", "G", "H", "I", "J", "K", "L", "M", "N", "O", "P", "Q", "R", "S", "T", "U", "V", "W", "X", "Y", "Z">>

IsSpace(c) == c \in {" ", "\t", "\n"}

UpperChar(c) ==
    IF \E i \in 1..26 : LowerCase[i] = c
    THEN UpperCase[CHOOSE i \in 1..26 : LowerCase[i] = c]
    ELSE c

(* Faulty variant: the prefix is compared without folding case. *)
upper_KeepsCase(s) == s

upper(s) == [i \in 1..Len(s) |-> UpperChar(s[i])]

RECURSIVE lstrip(_)
lstrip(s) == IF Len(s) > 0 /\ IsSpace(s[1]) THEN lstrip(Tail(s)) ELSE s

RECURSIVE rstrip(_)
rstrip(s) ==
    IF Len(s) > 0 /\ IsSpace(s[Len(s)])
    THEN rstrip(SubSeq(s, 1, Len(s) - 1)) ELSE s

strip(s) == rstrip(lstrip(s))

startswith(s, prefix) ==
    Len(s) >= Len(prefix) /\ SubSeq(s, 1, Len(prefix)) = prefix

(* s.split('/')[0]: the text before the first slash, all of s if none *)
RECURSIVE FirstSegment(_)
FirstSegment(s) ==
    IF Len(s) = 0 \/ s[1] = "/" THEN <<>>
    ELSE <<s[1]>> \o FirstSegment(Tail(s))

(* sep.join(lines), each line a tuple of fragments *)
RECURSIVE join(_, _)
join(sep, lines) ==
    IF Len(lines) = 0 THEN <<>>
    ELSE IF Len(lines) = 1 THEN lines[1]
    ELSE lines[1] \o <<sep>> \o join(sep, Tail(lines))

(* quote(name) with the default safe="/": letters, digits, "_.-~" and "/"  *)
(* pass through, every other character becomes %XX.                        *)
QuoteChar(c) ==
    CASE c = " " -> <<"%", "2", "0">>
      [] c = "%" -> <<"%", "2", "5">>
      [] c = "?" -> <<"%", "3", "F">>
      [] c = "#" -> <<"%", "2", "3">>
      [] OTHER -> <<c>>

RECURSIVE quote(_)
quote(s) == IF Len(s) = 0 THEN <<>> ELSE QuoteChar(s[1]) \o quote(Tail(s))

(* ---------------------------------------------------------------------- *)
(* What the database holds (inputs of the driver's replies)                *)
(* ---------------------------------------------------------------------- *)
MaxTables == 2

TableNames == { <<"f", "o", "o">>, <<"m", "y", " ", "t">>, <<"a", "/", "b">> }

RECURSIVE SeqsUpTo(_, _)
SeqsUpTo(S, n) ==
    IF n = 0 THEN {<<>>}
    ELSE LET shorter == SeqsUpTo(S, n - 1)
         IN  shorter \cup { Append(q, x) : q \in shorter, x \in S }

TableLists == SeqsUpTo(TableNames, MaxTables)

(* cursor.description and cursor.fetchall() of a SELECT; a cell is an      *)
(* integer or a string.                                                    *)
ResultSets ==
    { [columns |-> <<"a", "b">>,
       rows |-> << <<IntVal(1), StrText("x")>>, <<IntVal(2), StrText("y")>> >>],
      [columns |-> <<"n">>, rows |-> <<>>] }

RowCounts == {0, 3}

(* str(cell) *)
CellText(cell) == IF cell.t = "int" THEN str(cell.v) ELSE <<cell.v>>

(* "\n".join([",".join(columns)] + [",".join(map(str, row)) for row ...])  *)
FormatRows(rs) ==
    join("\n",
         <<join(",", [i \in 1..Len(rs.columns) |-> <<rs.columns[i]>>])>>
         \o [r \in 1..Len(rs.rows) |->
                join(",", [i \in 1..Len(rs.rows[r]) |->
                              CellText(rs.rows[r][i])])])

(* ---------------------------------------------------------------------- *)
(* call_tool: execute_sql                                                  *)
(* ---------------------------------------------------------------------- *)
SHOW_TABLES == <<"S", "H", "O", "W", " ", "T", "A", "B", "L", "E", "S">>

SELECT == <<"S", "E", "L", "E", "C", "T">>

Queries ==
    { None, Some(<<>>),
      Some(<<"S", "H", "O", "W", " ", "T", "A", "B", "L", "E", "S">>),
      Some(<<" ", "s", "h", "o", "w", " ", "t", "a", "b", "l", "e", "s", " ">>),
      Some(<<"s", "e", "l", "e", "c", "t", " ", "1">>),
      Some(<<"D", "E", "L", "E", "T", "E">>),
      Some(<<" ">>) }

(* Lines 299-300: except OperationalError *)
ExecuteSqlConnectionLost(cs, msg) ==
    [cs EXCEPT !.is_connected = FALSE, !.last_error = Some(msg)]

(* Lines 302-303: except Error leaves the state alone *)
ExecuteSqlQueryFailed(cs, msg) == cs

(* Faulty variant: the snapshot of the last successful connect is laid    *)
(* over the environment configuration.                                     *)
ExecuteSqlConfig_ReusesConnectDetails(cs, e) ==
    LET base == get_db_config(e) IN
    IF base.raised # "" \/ IsNone(cs.connection_details) THEN base
    ELSE LET d == Val(cs.connection_details)
         IN  [base EXCEPT !.config.host = d.host, !.config.port = d.port,
                          !.config.user = d.user,
                          !.config.database = d.database]

(* Line 273: the configuration execute_sql connects with *)
ExecuteSqlConfig(cs, e) == get_db_config(e)

(* Lines 271-303: the try block *)
ExecuteSqlRun(a, outcome) ==
    LET base == ExecuteSqlConfig(CONNECTION_STATE, env)
        query == Val(a.query)
        head == upper(strip(query))
        commits == ~startswith(head, SHOW_TABLES) /\ ~startswith(head, SELECT)
    IN
    /\ cfg_loads' = 1
    /\ IF base.raised # ""
       THEN /\ result' = Fault(base.raised, base.text)
            /\ db' = NoDb
            /\ UNCHANGED CONNECTION_STATE
       ELSE /\ db' = DbCall(base.config, query, outcome, commits)
            /\ IF outcome.stage = "ok"
               THEN /\ UNCHANGED CONNECTION_STATE
                    /\ IF startswith(head, SHOW_TABLES)
                       THEN \E tables \in TableLists :
                              result' = TextContent(
                                 join("\n",
                                      << <<"Tables_in_", base.config.database>> >>
                                      \o tables))
                       ELSE IF startswith(head, SELECT)
                       THEN \E rs \in ResultSets :
                              result' = TextContent(FormatRows(rs))
                       ELSE \E n \in RowCounts :
                              result' = TextContent(
                                 <<"Query executed successfully. Rows affected: ">>
                                     \o str(n))
               ELSE IF outcome.error = "OperationalError"
               THEN /\ CONNECTION_STATE' =
                          ExecuteSqlConnectionLost(CONNECTION_STATE, outcome.msg)
                    /\ result' = TextContent(
                          <<"Connection lost: ", outcome.msg,
                            ". Please reconnect using the 'connect' tool.">>)
               ELSE /\ CONNECTION_STATE' =
                          ExecuteSqlQueryFailed(CONNECTION_STATE, outcome.msg)
                    /\ result' = TextContent(
                          <<"Error executing query: ", outcome.msg>>)

(* Faulty variant: the missing query is reported as text, like the driver  *)
(* errors, instead of being raised.                                        *)
MissingQueryReply_AsText == TextContent(<<"Query is required">>)

(* Line 269 *)
MissingQueryReply == Fault("ValueError", <<"Query is required">>)

(* Faulty variant: the query argument is validated before the connection  *)
(* check instead of after it.                                              *)
ExecuteSqlTool_ValidatesFirst(a, outcome) ==
    IF IsNone(a.query) \/ Val(a.query) = <<>>
    THEN /\ result' = MissingQueryReply
         /\ db' = NoDb
         /\ cfg_loads' = 0
         /\ UNCHANGED CONNECTION_STATE
    ELSE IF ~CONNECTION_STATE.is_connected
    THEN /\ result' = TextContent(
               <<"Not connected to MySQL. Please use the 'connect' tool first.">>)
         /\ db' = NoDb
         /\ cfg_loads' = 0
         /\ UNCHANGED CONNECTION_STATE
    ELSE ExecuteSqlRun(a, outcome)

(* Lines 262-303 *)
ExecuteSqlTool(a, outcome) ==
    IF ~CONNECTION_STATE.is_connected
    THEN /\ result' = TextContent(
               <<"Not connected to MySQL. Please use the 'connect' tool first.">>)
         /\ db' = NoDb
         /\ cfg_loads' = 0
         /\ UNCHANGED CONNECTION_STATE
    ELSE IF IsNone(a.query) \/ Val(a.query) = <<>>
    THEN /\ result' = MissingQueryReply
         /\ db' = NoDb
         /\ cfg_loads' = 0
         /\ UNCHANGED CONNECTION_STATE
    ELSE ExecuteSqlRun(a, outcome)

(* ---------------------------------------------------------------------- *)
(* call_tool                                                               *)
(* ---------------------------------------------------------------------- *)
UnknownNames == { "drop_database", "Connect" }

ToolNames ==
    { "connect", "disconnect", "connection_status", "execute_sql" }
        \cup UnknownNames

(* Faulty variant: the message does not name the tool. *)
UnknownToolReply_OmitsName(name) == Fault("ValueError", <<"Unknown tool">>)

(* Line 306 *)
UnknownToolReply(name) == Fault("ValueError", <<"Unknown tool: ", name>>)

call_tool(name, a, outcome) ==
    /\ op' = name
    /\ arguments' = a
    /\ before' = Flags(CONNECTION_STATE)
    /\ UNCHANGED <<env, pc, tasks, running>>
    /\ IF name = "connect" THEN ConnectTool(a, outcome)
       ELSE IF name = "disconnect" THEN DisconnectTool
       ELSE IF name = "connection_status" THEN ConnectionStatusTool
       ELSE IF name = "execute_sql" THEN ExecuteSqlTool(a, outcome)
       ELSE /\ result' = UnknownToolReply(name)
            /\ db' = NoDb
            /\ cfg_loads' = 0
            /\ UNCHANGED CONNECTION_STATE

(* ---------------------------------------------------------------------- *)
(* list_resources                                                          *)
(* ---------------------------------------------------------------------- *)
Scheme == <<"m", "y", "s", "q", "l", ":", "/", "/">>

DataSuffix == <<"/", "d", "a", "t", "a">>

Resource(table_name) ==
    [uri |-> Scheme \o quote(table_name) \o DataSuffix,
     name |-> <<"Table: ">> \o table_name,
     mimeType |-> "text/plain",
     description |-> <<"Data in table: ">> \o table_name]

ResourceList(resources) == [kind |-> "resources", resources |-> resources]

(* Faulty variant: the connection failure is handled like a query failure. *)
ListConnectionLost_NoUpdate(cs, msg) == cs

(* Lines 81-82: except OperationalError *)
ListConnectionLost(cs, msg) ==
    [cs EXCEPT !.is_connected = FALSE, !.last_error = Some(msg)]

(* Lines 84-86: except Error leaves the state alone *)
ListQueryFailed(cs, msg) == cs

(* Faulty variant: the configuration is loaded before the connection      *)
(* check, so a disconnected call reads it (and raises when it is invalid). *)
NotConnectedList_LoadsConfig ==
    LET base == get_db_config(env) IN
    /\ result' = IF base.raised # "" THEN Fault(base.raised, base.text)
                 ELSE ResourceList(<<>>)
    /\ db' = NoDb
    /\ cfg_loads' = 1
    /\ UNCHANGED CONNECTION_STATE

(* Lines 51-53 *)
NotConnectedList ==
    /\ result' = ResourceList(<<>>)
    /\ db' = NoDb
    /\ cfg_loads' = 0
    /\ UNCHANGED CONNECTION_STATE

list_resources(outcome) ==
    /\ op' = "list_resources"
    /\ arguments' = NoArgs
    /\ before' = Flags(CONNECTION_STATE)
    /\ UNCHANGED <<env, pc, tasks, running>>
    /\ IF ~CONNECTION_STATE.is_connected
       THEN NotConnectedList
       ELSE LET base == get_db_config(env) IN
            /\ cfg_loads' = 1
            /\ IF base.raised # ""
               THEN /\ result' = Fault(base.raised, base.text)
                    /\ db' = NoDb
                    /\ UNCHANGED CONNECTION_STATE
               ELSE /\ db' = DbCall(base.config, SHOW_TABLES, outcome, FALSE)
                    /\ IF outcome.stage = "ok"
                       THEN /\ UNCHANGED CONNECTION_STATE
                            /\ \E tables \in TableLists :
                                 result' = ResourceList(
                                    [i \in 1..Len(tables) |-> Resource(tables[i])])
                       ELSE IF outcome.error = "OperationalError"
                       THEN /\ CONNECTION_STATE' =
                                  ListConnectionLost(CONNECTION_STATE, outcome.msg)
                            /\ result' = ResourceList(<<>>)
                       ELSE /\ CONNECTION_STATE' =
                                  ListQueryFailed(CONNECTION_STATE, outcome.msg)
                            /\ result' = ResourceList(<<>>)

(* ---------------------------------------------------------------------- *)
(* read_resource                                                           *)
(* ---------------------------------------------------------------------- *)
(* The URIs list_resources hands out for TableNames, one of another        *)
(* scheme, and the bare scheme.                                            *)
Uris ==
    { Resource(t).uri : t \in TableNames }
        \cup { <<"h", "t", "t", "p", ":", "/", "/", "f", "o", "o">>, Scheme }

Body(text) == [kind |-> "body", text |-> text]

(* Lines 118-119: except OperationalError *)
ReadConnectionLost(cs, msg) ==
    [cs EXCEPT !.is_connected = FALSE, !.last_error = Some(msg)]

(* Faulty variant: a query failure is handled like a connection failure. *)
ReadQueryFailed_MarksDisconnected(cs, msg) ==
    [cs EXCEPT !.is_connected = FALSE, !.last_error = Some(msg)]

(* Lines 121-123: except Error leaves the state alone *)
ReadQueryFailed(cs, msg) == cs

(* Lines 95-123: what read_resource does once the connection check passed *)
ReadResourceConnected(uri_str, outcome) ==
    LET base == get_db_config(env)
        table == FirstSegment(SubSeq(uri_str, 9, Len(uri_str)))
    IN
    /\ cfg_loads' = 1
    /\ IF base.raised # ""
       THEN /\ result' = Fault(base.raised, base.text)
            /\ db' = NoDb
            /\ UNCHANGED CONNECTION_STATE
       ELSE IF ~startswith(uri_str, Scheme)
       THEN /\ result' = Fault("ValueError",
                               <<"Invalid URI scheme: ">> \o uri_str)
            /\ db' = NoDb
            /\ UNCHANGED CONNECTION_STATE
       ELSE /\ db' = DbCall(base.config,
                            <<"SELECT * FROM ">> \o table \o <<" LIMIT 100">>,
                            outcome, FALSE)
            /\ IF outcome.stage = "ok"
               THEN /\ UNCHANGED CONNECTION_STATE
                    /\ \E rs \in ResultSets :
                         result' = Body(FormatRows(rs))
               ELSE IF outcome.error = "OperationalError"
               THEN /\ CONNECTION_STATE' =
                          ReadConnectionLost(CONNECTION_STATE, outcome.msg)
                    /\ result' = Body(
                          <<"Error: Connection to MySQL lost. ", outcome.msg>>)
               ELSE /\ CONNECTION_STATE' =
                          ReadQueryFailed(CONNECTION_STATE, outcome.msg)
                    /\ result' = Body(<<"Error: ", outcome.msg>>)

(* Lines 91-123 *)
ReadResourceBody(uri_str, outcome) ==
    IF ~CONNECTION_STATE.is_connected
    THEN /\ result' = Body(
               <<"Error: Not connected to MySQL. Please use the 'connect' tool first.">>)
         /\ db' = NoDb
         /\ cfg_loads' = 0
         /\ UNCHANGED CONNECTION_STATE
    ELSE ReadResourceConnected(uri_str, outcome)

read_resource(uri_str, outcome) ==
    /\ op' = "read_resource"
    /\ arguments' = [uri |-> uri_str]
    /\ before' = Flags(CONNECTION_STATE)
    /\ UNCHANGED <<env, pc, tasks, running>>
    /\ ReadResourceBody(uri_str, outcome)

(* ---------------------------------------------------------------------- *)
(* The server: main() once, then requests are dispatched one at a time.    *)
(* ---------------------------------------------------------------------- *)
Connect ==
    /\ pc = "serving"
    /\ \E a \in ConnectArguments, outcome \in DbOutcomes :
          call_tool("connect", a, outcome)

Disconnect ==
    /\ pc = "serving"
    /\ call_tool("disconnect", NoArgs, DbOk)

ConnectionStatus ==
    /\ pc = "serving"
    /\ call_tool("connection_status", NoArgs, DbOk)

ExecuteSql ==
    /\ pc = "serving"
    /\ \E q \in Queries, outcome \in DbOutcomes :
          call_tool("execute_sql",
                    MkArgs(None, None, None, None, None, q), outcome)

UnknownTool ==
    /\ pc = "serving"
    /\ \E name \in UnknownNames : call_tool(name, NoArgs, DbOk)

ListResources ==
    /\ pc = "serving"
    /\ \E outcome \in DbOutcomes : list_resources(outcome)

ReadResource ==
    /\ pc = "serving"
    /\ \E uri_str \in Uris, outcome \in DbOutcomes :
          read_resource(uri_str, outcome)

Next ==
    \/ main
    \/ Connect
    \/ Disconnect
    \/ ConnectionStatus
    \/ ExecuteSql
    \/ UnknownTool
    \/ ListResources
    \/ ReadResource

Spec == Init /\ [][Next]_vars

(* ---------------------------------------------------------------------- *)
(* Concurrent dispatch.  The transport starts one task per request; a      *)
(* task is an async def handler, which keeps the event loop until it       *)
(* reaches an await expression or returns.  A handler is the sequence of   *)
(* its accesses to CONNECTION_STATE and its (blocking) database call.      *)
(* ---------------------------------------------------------------------- *)
NumTasks == 2

(* The handlers that use the database only while is_connected is true. *)
DataOps == {"execute_sql", "list_resources", "read_resource"}

AsyncFailures == {"OperationalError", "Error"}

AsyncRequests ==
    [name : {"connect"} \cup DataOps, outcome : {"ok"} \cup AsyncFailures]
        \cup [name : {"disconnect", "connection_status"}, outcome : {"ok"}]

(* The accesses of one handler, in program order. *)
Program(req) ==
    IF req.name = "connect"
    THEN IF req.outcome = "ok"
         THEN <<"load_config", "db",
                "set_connected", "clear_error", "set_details">>
         ELSE <<"load_config", "db", "clear_connected", "set_error">>
    ELSE IF req.name = "disconnect"
    THEN <<"clear_connected", "clear_error">>
    ELSE IF req.name = "connection_status"
    THEN <<"read_connected", "read_rest">>
    ELSE IF req.outcome = "OperationalError"
    THEN <<"read_connected", "load_config", "db",
           "clear_connected", "set_error">>
    ELSE <<"read_connected", "load_config", "db">>

(* Faulty variant: an asynchronous driver, every database call is awaited. *)
AwaitPoints_AtDbCall == {"db"}

(* The accesses at which a handler awaits: no handler body of the module   *)
(* contains an await expression.                                           *)
AwaitPoints == {}

AsyncEnv ==
    MkEnv(None, None, None, None, Some("root"), Some("pw"), Some("shop"))

AsyncMessage == "2013 (HY000): Lost connection to MySQL server during query"

(* The states sequential dispatch leaves behind: never connected, connected *)
(* and disconnected after a failure.                                       *)
AsyncStates ==
    LET details == Some(Details(get_db_config(AsyncEnv).config))
    IN  { [is_connected |-> FALSE, last_error |-> None,
           connection_details |-> None],
          [is_connected |-> TRUE, last_error |-> None,
           connection_details |-> details],
          [is_connected |-> FALSE, last_error |-> Some(AsyncMessage),
           connection_details |-> details] }

ApplyAccess(access, cs) ==
    CASE access = "set_connected" -> [cs EXCEPT !.is_connected = TRUE]
      [] access = "clear_connected" -> [cs EXCEPT !.is_connected = FALSE]
      [] access = "clear_error" -> [cs EXCEPT !.last_error = None]
      [] access = "set_error" -> [cs EXCEPT !.last_error = Some(AsyncMessage)]
      [] access = "set_details" ->
            [cs EXCEPT !.connection_details =
                          Some(Details(get_db_config(AsyncEnv).config))]
      [] OTHER -> cs

Finished(task) == task.next > Len(Program(task.req))

Started(task) == task.next > 1 /\ ~Finished(task)

Suspended(task) ==
    ~Finished(task) /\ Program(task.req)[task.next] \in AwaitPoints

(* The loop runs t when t holds it, when nobody holds it, or when the      *)
(* holder is waiting at an await.                                          *)
CanRun(t) ==
    /\ ~Finished(tasks[t])
    /\ IF running \in {0, t} THEN TRUE ELSE Suspended(tasks[running])

AsyncStep(t) ==
    LET task == tasks[t]
        access == Program(task.req)[task.next]
        returns == /\ access = "read_connected"
                   /\ task.req.name \in DataOps
                   /\ ~CONNECTION_STATE.is_connected
        after == [task EXCEPT
                     !.next = IF returns THEN Len(Program(task.req)) + 1
                              ELSE task.next + 1,
                     !.seen = IF access = "read_connected"
                              THEN IF CONNECTION_STATE.is_connected
                                   THEN "yes" ELSE "no"
                              ELSE task.seen]
    IN  /\ CanRun(t)
        /\ CONNECTION_STATE' = ApplyAccess(access, CONNECTION_STATE)
        /\ tasks' = [tasks EXCEPT ![t] = after]
        /\ running' = IF Finished(after) THEN 0 ELSE t
        /\ UNCHANGED <<env, pc, op, arguments, result, db, cfg_loads, before>>

InitAsync ==
    /\ CONNECTION_STATE \in AsyncStates
    /\ env = AsyncEnv
    /\ pc = "serving"
    /\ op = "none"
    /\ arguments = NoArgs
    /\ result = [kind |-> "none"]
    /\ db = NoDb
    /\ cfg_loads = 0
    /\ before = Flags(CONNECTION_STATE)
    /\ tasks \in [1..NumTasks ->
                    [req : AsyncRequests, next : {1}, seen : {"unset"}]]
    /\ running = 0

NextAsync == \E t \in 1..NumTasks : AsyncStep(t)

SpecAsync == InitAsync /\ [][NextAsync]_vars

(* ====================================================================== *)
(* Properties                                                              *)
(* ====================================================================== *)
HasFragment(text, fragment) == \E i \in 1..Len(text) : text[i] = fragment

(* C1: after every dispatched operation, connection_details is non-null    *)
(* if and only if is_connected is true.  Fails: disconnect (lines 246-247) *)
(* and the error handlers reset is_connected but keep connection_details.  *)
C1_DetailsIffConnected ==
    ~IsNone(CONNECTION_STATE.connection_details) <=> CONNECTION_STATE.is_connected

(* C2: in every reachable state, is_connected implies last_error is null.  *)
C2_ConnectedHasNoLastError ==
    CONNECTION_STATE.is_connected => IsNone(CONNECTION_STATE.last_error)

(* A connect succeeded in a state that held a recorded error. *)
C2_Witness ==
    /\ op = "connect"
    /\ CONNECTION_STATE.is_connected
    /\ ~IsNone(before.last_error)

(* C3: disconnect returns "Disconnected from MySQL." (no fault), makes no  *)
(* database call, and leaves is_connected false and last_error null.       *)
C3_DisconnectAlwaysSucceeds ==
    op = "disconnect" =>
        /\ result = TextContent(<<"Disconnected from MySQL.">>)
        /\ db = NoDb
        /\ cfg_loads = 0
        /\ ~CONNECTION_STATE.is_connected
        /\ IsNone(CONNECTION_STATE.last_error)

(* disconnect was dispatched in a state with a recorded error *)
C3_Witness ==
    /\ op = "disconnect"
    /\ ~IsNone(before.last_error)
    /\ ~CONNECTION_STATE.is_connected

(* C4: a connection_status step changes no field of CONNECTION_STATE,      *)
(* returns text (no fault), opens no connection, and its text is what a     *)
(* second connection_status right after it returns.                        *)
C4_StatusIsReadOnly ==
    [][op' = "connection_status" =>
          /\ CONNECTION_STATE' = CONNECTION_STATE
          /\ result'.kind = "text"
          /\ db' = NoDb
          /\ StatusReply(CONNECTION_STATE').kind = "text"
          /\ StatusReply(CONNECTION_STATE').text = result'.text
          /\ (op = "connection_status" => result' = result)]_vars

(* connection_status reported a recorded error *)
C4_Witness ==
    /\ op = "connection_status"
    /\ ~IsNone(CONNECTION_STATE.last_error)
    /\ HasFragment(result.text, " Last error: ")

(* C5: execute_sql dispatched while is_connected is false returns exactly  *)
(* the not-connected text, whatever the query argument, opens no           *)
(* connection, does not load the configuration and changes no state.       *)
C5_ExecuteSqlNotConnected ==
    [][(op' = "execute_sql" /\ ~CONNECTION_STATE.is_connected) =>
          /\ result' = TextContent(
                <<"Not connected to MySQL. Please use the 'connect' tool first.">>)
          /\ db' = NoDb
          /\ cfg_loads' = 0
          /\ CONNECTION_STATE' = CONNECTION_STATE]_vars

(* execute_sql without a query argument, dispatched while not connected *)
C5_Witness ==
    /\ op = "execute_sql"
    /\ ~before.is_connected
    /\ IsNone(arguments.query)
    /\ result.kind = "text"

(* The configuration a connect is expected to use: each field from the    *)
(* arguments when supplied, else from the environment, else the default.   *)
ExpectedHost ==
    IF ~IsNone(arguments.host) THEN Val(arguments.host)
    ELSE IF ~IsNone(env.MYSQL_HOST) THEN Val(env.MYSQL_HOST)
    ELSE "localhost"

ExpectedPort ==
    IF ~IsNone(arguments.port) THEN int(Val(arguments.port)).value
    ELSE IF ~IsNone(env.MYSQL_PORT) THEN DecimalValue(Val(env.MYSQL_PORT))
    ELSE 3306

ExpectedUser ==
    IF ~IsNone(arguments.user) THEN Val(arguments.user) ELSE Val(env.MYSQL_USER)

ExpectedPassword ==
    IF ~IsNone(arguments.password) THEN Val(arguments.password)
    ELSE Val(env.MYSQL_PASSWORD)

ExpectedDatabase ==
    IF ~IsNone(arguments.database) THEN Val(arguments.database)
    ELSE Val(env.MYSQL_DATABASE)

C7_ConnectFailure ==
    (op = "connect" /\ db.outcome.stage # "ok") =>
        /\ result.kind = "text"
        /\ HasFragment(result.text, db.outcome.msg)
        /\ ~CONNECTION_STATE.is_connected
        /\ CONNECTION_STATE.last_error = Some(db.outcome.msg)

(* a connect failed at the probe while already connected *)
C7_Witness ==
    /\ op = "connect"
    /\ db.outcome.stage = "execute"
    /\ before.is_connected
    /\ ~CONNECTION_STATE.is_connected

(* C8: is_connected goes from false to true only in a connect step whose   *)
(* probe query succeeded.                                                  *)
C8_OnlyConnectSetsConnected ==
    [][(~CONNECTION_STATE.is_connected /\ CONNECTION_STATE'.is_connected) =>
          /\ op' = "connect"
          /\ db'.outcome.stage = "ok"
          /\ db'.executed = << <<"SELECT 1">> >>]_vars

(* a connect turned is_connected from false to true *)
C8_Witness ==
    /\ op = "connect"
    /\ ~before.is_connected
    /\ CONNECTION_STATE.is_connected

(* C9: when execute_sql, listResources or readResource, dispatched while   *)
(* connected, meets a connection-level error, it ends with is_connected    *)
(* false and last_error the failure message, and returns content (text     *)
(* with the message; the empty list for listResources), not a fault.       *)
C9_ConnectionLost ==
    (op \in DataOps /\ db.outcome.error = "OperationalError") =>
        /\ before.is_connected
        /\ ~CONNECTION_STATE.is_connected
        /\ CONNECTION_STATE.last_error = Some(db.outcome.msg)
        /\ result.kind # "fault"
        /\ IF op = "list_resources"
           THEN result = ResourceList(<<>>)
           ELSE HasFragment(result.text, db.outcome.msg)

(* listResources lost the connection *)
C9_Witness ==
    /\ op = "list_resources"
    /\ db.outcome.error = "OperationalError"
    /\ ~CONNECTION_STATE.is_connected

(* C10: a statement-level failure in execute_sql, readResource or          *)
(* listResources changes no field of CONNECTION_STATE and is returned as   *)
(* content, not as a fault; an execute_sql that follows it with a query    *)
(* still calls the database.                                               *)
C10_QueryFailureKeepsState ==
    [][/\ (op' \in DataOps /\ db'.outcome.error = "Error") =>
             /\ CONNECTION_STATE' = CONNECTION_STATE
             /\ CONNECTION_STATE'.is_connected
             /\ result'.kind # "fault"
             /\ IF op' = "list_resources"
                THEN result' = ResourceList(<<>>)
                ELSE HasFragment(result'.text, db'.outcome.msg)
       /\ (/\ op \in DataOps /\ db.outcome.error = "Error"
           /\ op' = "execute_sql" /\ Truthy(arguments'.query)) =>
             (cfg_loads' = 1 /\ ~IsNone(db'.config))]_vars

(* readResource met a statement-level failure and the state stays connected *)
C10_Witness ==
    /\ op = "read_resource"
    /\ db.outcome.error = "Error"
    /\ db.outcome.stage = "execute"
    /\ CONNECTION_STATE.is_connected

(* C11: every connection an operation opens is closed when the operation  *)
(* has returned or raised, whatever the outcome; between operations no     *)
(* connection is open, also while is_connected is true.                    *)
C11_ConnectionsClosed ==
    /\ db.opened \in {0, 1}
    /\ db.closed = db.opened
    /\ (db.outcome.stage = "open" => db.opened = 0)
    /\ (db.outcome.stage = "execute" => db.opened = 1)

(* execute_sql failed in cursor.execute on an open connection and the      *)
(* state stays connected                                                   *)
C11_Witness ==
    /\ op = "execute_sql"
    /\ db.outcome.stage = "execute"
    /\ db.opened = 1
    /\ db.closed = 1
    /\ CONNECTION_STATE.is_connected

(* The configuration the environment alone gives. *)
EnvHost ==
    IF ~IsNone(env.MYSQL_HOST) THEN Val(env.MYSQL_HOST) ELSE "localhost"

EnvPort ==
    IF ~IsNone(env.MYSQL_PORT) THEN DecimalValue(Val(env.MYSQL_PORT)) ELSE 3306

NotConnectedText ==
    <<"Not connected to MySQL. Please use the 'connect' tool first.">>

NotConnectedBody ==
    <<"Error: Not connected to MySQL. Please use the 'connect' tool first.">>

(* an execute_sql step without a usable query *)
QueryInvalidStep == op' = "execute_sql" /\ ~Truthy(arguments'.query)

(* a readResource step whose URI does not start with mysql:// *)
UriInvalidStep == op' = "read_resource" /\ ~startswith(arguments'.uri, Scheme)

(* C13 as stated: a missing or empty query and a URI of another scheme     *)
(* raise a fault in every connection state, without a database call and    *)
(* without a state change.  Fails while is_connected is false: the         *)
(* connection check (lines 264, 92) comes first and returns text.          *)
C13_ValidationAlwaysFaults ==
    [][(QueryInvalidStep \/ UriInvalidStep) =>
          /\ result'.kind = "fault"
          /\ db' = NoDb
          /\ CONNECTION_STATE' = CONNECTION_STATE]_vars

(* C13 amended: while is_connected is true both validation failures are    *)
(* raised as ValueError; while it is false both operations return their    *)
(* not-connected text instead.  In either case there is no database call    *)
(* and no state change.                                                    *)
C13_ValidationFaultsWhenConnected ==
    [][/\ QueryInvalidStep =>
             /\ db' = NoDb
             /\ CONNECTION_STATE' = CONNECTION_STATE
             /\ IF CONNECTION_STATE.is_connected
                THEN result' = Fault("ValueError", <<"Query is required">>)
                ELSE result' = TextContent(NotConnectedText)
       /\ UriInvalidStep =>
             /\ db' = NoDb
             /\ CONNECTION_STATE' = CONNECTION_STATE
             /\ IF CONNECTION_STATE.is_connected
                THEN result' = Fault("ValueError",
                                     <<"Invalid URI scheme: ">> \o arguments'.uri)
                ELSE result' = Body(NotConnectedBody)]_vars

(* execute_sql with an empty query raised while connected *)
C13_Witness ==
    /\ op = "execute_sql"
    /\ before.is_connected
    /\ arguments.query = Some(<<>>)
    /\ result.kind = "fault"

KnownTools == {"connect", "disconnect", "connection_status", "execute_sql"}

(* a call_tool step *)
ToolStep == op' \notin {"none", "main", "list_resources", "read_resource"}

(* C14: a tool call whose name is none of the four tools raises a fault     *)
(* that carries the requested name, makes no database call and changes no  *)
(* field of CONNECTION_STATE.                                              *)
C14_UnknownToolFaults ==
    [][(ToolStep /\ op' \notin KnownTools) =>
          /\ result'.kind = "fault"
          /\ HasFragment(result'.text, op')
          /\ db' = NoDb
          /\ cfg_loads' = 0
          /\ CONNECTION_STATE' = CONNECTION_STATE]_vars

(* a name that differs from a tool only in case was rejected while connected *)
C14_Witness ==
    /\ op = "Connect"
    /\ result.kind = "fault"
    /\ CONNECTION_STATE.is_connected

(* C15: while is_connected is false, listResources returns the empty list  *)
(* and readResource returns the not-connected body, for every URI; neither  *)
(* raises, opens a connection, loads the configuration or changes state.   *)
C15_ResourcesNotConnected ==
    [][(~CONNECTION_STATE.is_connected
           /\ op' \in {"list_resources", "read_resource"}) =>
          /\ IF op' = "list_resources"
             THEN result' = ResourceList(<<>>)
             ELSE result' = Body(NotConnectedBody)
          /\ db' = NoDb
          /\ cfg_loads' = 0
          /\ CONNECTION_STATE' = CONNECTION_STATE]_vars

(* listResources returned the empty list while disconnected with an        *)
(* environment that get_db_config rejects                                  *)
C15_Witness ==
    /\ op = "list_resources"
    /\ ~before.is_connected
    /\ get_db_config(env).raised # ""
    /\ result = ResourceList(<<>>)

(* C16: for every table name, readResource given the URI that              *)
(* listResources produces for it substitutes that same name into           *)
(* SELECT * FROM {table} LIMIT 100.  Fails: quote turns a space into %20   *)
(* and read_resource does not decode (line 103), and quote leaves a slash  *)
(* alone (line 66), so the first path segment is only the part before it.  *)
C16_UriRoundTrip ==
    \A t \in TableNames :
        (op = "read_resource" /\ db.opened = 1
            /\ arguments.uri = Resource(t).uri) =>
            db.executed = << <<"SELECT * FROM ">> \o t \o <<" LIMIT 100">> >>

(* get_db_config rejects the environment for a missing or empty user,     *)
(* password or database.                                                   *)
EnvInvalid ==
    \/ ~Truthy(env.MYSQL_USER)
    \/ ~Truthy(env.MYSQL_PASSWORD)
    \/ ~Truthy(env.MYSQL_DATABASE)

(* C17: with such an environment main() still reaches serving, calls no    *)
(* database, and leaves is_connected false and last_error null; afterwards *)
(* connection_status and disconnect return their texts, not a fault.       *)
C17_StartsWithInvalidConfig ==
    EnvInvalid =>
        /\ pc \in {"loaded", "serving"}
        /\ (op = "main" =>
               /\ pc = "serving"
               /\ db = NoDb
               /\ ~CONNECTION_STATE.is_connected
               /\ IsNone(CONNECTION_STATE.last_error))
        /\ (op = "connection_status" =>
               result = TextContent(<<"Not connected to MySQL.">>))
        /\ (op = "disconnect" =>
               result = TextContent(<<"Disconnected from MySQL.">>))

(* connection_status answered on a server started without credentials *)
C17_Witness ==
    /\ EnvInvalid
    /\ pc = "serving"
    /\ op = "connection_status"
    /\ result.kind = "text"

(* C20: with such an environment is_connected never becomes true: connect  *)
(* raises before any database call and CONNECTION_STATE keeps its initial   *)
(* value, also when user, password and database are passed as arguments.   *)
C20_InvalidConfigNeverConnects ==
    EnvInvalid =>
        /\ CONNECTION_STATE = [is_connected |-> FALSE, last_error |-> None,
                               connection_details |-> None]
        /\ (op = "connect" =>
               /\ result.kind = "fault"
               /\ result.type = "ValueError"
               /\ db = NoDb
               /\ cfg_loads = 1)

(* connect raised although the arguments supplied all three required fields *)
C20_Witness ==
    /\ EnvInvalid
    /\ op = "connect"
    /\ ~IsNone(arguments.user)
    /\ ~IsNone(arguments.password)
    /\ ~IsNone(arguments.database)
    /\ result.kind = "fault"

(* The statement text between its first and last non-blank character. *)
Trimmed(q) ==
    IF \A i \in 1..Len(q) : IsSpace(q[i]) THEN <<>>
    ELSE LET first == CHOOSE i \in 1..Len(q) :
                         ~IsSpace(q[i]) /\ \A j \in 1..(i - 1) : IsSpace(q[j])
             last == CHOOSE i \in 1..Len(q) :
                        ~IsSpace(q[i]) /\ \A j \in (i + 1)..Len(q) : IsSpace(q[j])
         IN  SubSeq(q, first, last)

SameLetter(c, capital) ==
    c = capital \/ \E i \in 1..26 : UpperCase[i] = capital /\ LowerCase[i] = c

(* t begins with the keyword, in either case *)
BeginsWith(t, keyword) ==
    /\ Len(t) >= Len(keyword)
    /\ \A k \in 1..Len(keyword) : SameLetter(t[k], keyword[k])

RECURSIVE TableLines(_)
TableLines(tables) ==
    IF Len(tables) = 0 THEN <<>>
    ELSE <<"\n">> \o Head(tables) \o TableLines(Tail(tables))

(* C18: a connected execute_sql whose database call succeeds executes the  *)
(* statement once and answers by the first matching case of: trimmed text  *)
(* begins with SHOW TABLES (any case): Tables_in_{database} and one table  *)
(* per line; begins with SELECT: comma-joined header and rows; otherwise:   *)
(* commit and "Query executed successfully. Rows affected: {n}".  Only the *)
(* last case commits.                                                      *)
C18_ExecuteSqlClassifies ==
    (op = "execute_sql" /\ db.opened = 1 /\ db.outcome.stage = "ok") =>
        LET q == Val(arguments.query)
            t == Trimmed(q)
        IN  /\ db.executed = <<q>>
            /\ IF BeginsWith(t, SHOW_TABLES)
               THEN /\ ~db.committed
                    /\ \E tables \in TableLists :
                          result = TextContent(
                             <<"Tables_in_", Val(env.MYSQL_DATABASE)>>
                                 \o TableLines(tables))
               ELSE IF BeginsWith(t, SELECT)
               THEN /\ ~db.committed
                    /\ result.kind = "text"
                    /\ result.text \in
                          { <<"a", ",", "b", "\n", "1", ",", "x", "\n",
                              "2", ",", "y">>,
                            <<"n">> }
               ELSE /\ db.committed
                    /\ result.kind = "text"
                    /\ result.text \in
                          { <<"Query executed successfully. Rows affected: ", "0">>,
                            <<"Query executed successfully. Rows affected: ", "3">> }

(* a lower-case, padded show tables listed two tables without a commit *)
C18_Witness ==
    /\ op = "execute_sql"
    /\ db.outcome.stage = "ok"
    /\ db.opened = 1
    /\ arguments.query =
          Some(<<" ", "s", "h", "o", "w", " ", "t", "a", "b", "l", "e", "s", " ">>)
    /\ ~db.committed
    /\ Len(result.text) > 6

(* The combinations of the three fields that sequential dispatch leaves. *)
Consistent(cs) ==
    cs.is_connected => (IsNone(cs.last_error) /\ ~IsNone(cs.connection_details))

(* C19: under concurrent dispatch no handler runs between the accesses of  *)
(* another: at most one task is between its first access and its return,   *)
(* it is the one holding the loop, the value of is_connected a handler     *)
(* read is still the value when it goes on, and whenever the loop is free   *)
(* the three fields are in a combination sequential dispatch produces.     *)
C19_HandlersAreAtomic ==
    /\ \A t, u \in DOMAIN tasks :
          (Started(tasks[t]) /\ Started(tasks[u])) => t = u
    /\ \A t \in DOMAIN tasks : Started(tasks[t]) => running = t
    /\ \A t \in DOMAIN tasks :
          (Started(tasks[t]) /\ tasks[t].seen # "unset"
              /\ Program(tasks[t].req)[tasks[t].next]
                    \in {"load_config", "db", "read_rest"}) =>
             (CONNECTION_STATE.is_connected <=> tasks[t].seen = "yes")
    /\ running = 0 => Consistent(CONNECTION_STATE)

(* a connect is between its writes, the fields do not fit together, and    *)
(* another request is waiting to be handled                                *)
C19_Witness ==
    /\ running # 0
    /\ tasks[running].req.name = "connect"
    /\ ~Consistent(CONNECTION_STATE)
    /\ \E u \in DOMAIN tasks : u # running /\ tasks[u].next = 1

====
